---- MODULE Spec2Model ----
(***************************************************************************)
(* Model of PackageDiscoveryService (src/package_discovery.py): the PURL   *)
(* parser, the special-case resolvers, the provider fetchers, the merge    *)
(* and the discover() orchestrator.                                        *)
(*                                                                         *)
(* A Python str is a sequence of one-character strings, so that split,     *)
(* startswith, replace and "in" are computed as the code computes them.    *)
(* Python None is the distinguished value None below; both None and the    *)
(* empty string are falsy (Truthy).                                        *)
(***************************************************************************)
EXTENDS Integers, Sequences, FiniteSets, TLC

VARIABLES
    serpapi_key,    \* self.serpapi_key of the service (shared, read-only)
    pc,             \* pc[r]: position of request r inside discover()
    purl,           \* purl[r]: the purl argument of request r
    allow_partial,  \* allow_partial[r]: the allow_partial argument
    metadata,       \* metadata[r]: the local accumulator of discover()
    idx,            \* idx[r]: position in the sources list (1-based)
    outcome,        \* outcome[r]: what discover() returned or raised
    net,            \* net[r]: outbound HTTP requests made, in order
    contrib,        \* contrib[r]: contributions to this request, in order
    fetched,        \* fetched[r]: what each awaited fetch_func did, in order
    release,        \* release[r]: the answer the release lookup got, if made
    call            \* a call of _merge_metadata on its own: arguments and results

vars == <<serpapi_key, pc, purl, allow_partial, metadata, idx, outcome,
          net, contrib, fetched, release, call>>

----------------------------------------------------------------------------
(* String literals of the source *)

None == <<"<None>">>
EmptyStr == << >>
S_pkg == <<"p", "k", "g", ":">>
S_at == <<"@">>
S_slash == <<"/">>
S_qmark == <<"?">>
S_hash == <<"#">>
S_v == <<"v">>
S_github == <<"g", "i", "t", "h", "u", "b">>
S_golang == <<"g", "o", "l", "a", "n", "g">>
S_go == <<"g", "o">>
S_npm == <<"n", "p", "m">>
S_pypi == <<"p", "y", "p", "i">>
S_maven == <<"m", "a", "v", "e", "n">>
S_cargo == <<"c", "a", "r", "g", "o">>
S_nuget == <<"n", "u", "g", "e", "t">>
S_gem == <<"g", "e", "m">>
S_github_com_slash == <<"g", "i", "t", "h", "u", "b", ".", "c", "o", "m", "/">>
S_gitlab_com_slash == <<"g", "i", "t", "l", "a", "b", ".", "c", "o", "m", "/">>
S_github_com == <<"g", "i", "t", "h", "u", "b", ".", "c", "o", "m">>
S_gitlab_com == <<"g", "i", "t", "l", "a", "b", ".", "c", "o", "m">>
S_bitbucket_org == <<"b", "i", "t", "b", "u", "c", "k", "e", "t", ".", "o", "r", "g">>
S_https == <<"h", "t", "t", "p", "s", ":", "/", "/">>
S_https_github == <<"h", "t", "t", "p", "s", ":", "/", "/", "g", "i", "t", "h", "u", "b", ".", "c", "o", "m", "/">>
S_git_plus == <<"g", "i", "t", "+">>
S_dot_git == <<".", "g", "i", "t">>
S_issues == <<"/", "i", "s", "s", "u", "e", "s">>
S_pulls == <<"/", "p", "u", "l", "l", "s">>
S_wiki == <<"/", "w", "i", "k", "i">>
S_tree == <<"/", "t", "r", "e", "e">>
S_blob == <<"/", "b", "l", "o", "b">>
S_homepage == <<"h", "o", "m", "e", "p", "a", "g", "e">>
S_git == <<"g", "i", "t">>
S_deps_dev == <<"d", "e", "p", "s", ".", "d", "e", "v">>
S_clearlydefined == <<"c", "l", "e", "a", "r", "l", "y", "d", "e", "f", "i", "n", "e", "d">>
S_purl2src == <<"p", "u", "r", "l", "2", "s", "r", "c">>
S_upmex == <<"u", "p", "m", "e", "x">>
S_serpapi == <<"s", "e", "r", "p", "a", "p", "i">>
S_ecosystem == <<"e", "c", "o", "s", "y", "s", "t", "e", "m">>
S_name == <<"n", "a", "m", "e">>
S_repo_url == <<"r", "e", "p", "o", "_", "u", "r", "l">>

----------------------------------------------------------------------------
(* Python str operations, computed on character sequences *)

\* bool(x) for x an Optional[str]
Truthy(x) == x # None /\ x # EmptyStr

\* a or b
Or(a, b) == IF Truthy(a) THEN a ELSE b

\* s[i-1:] with i 1-based
Drop(s, n) == IF n >= Len(s) THEN << >> ELSE SubSeq(s, n + 1, Len(s))

Take(s, n) == IF n >= Len(s) THEN s ELSE SubSeq(s, 1, n)

\* s.startswith(p)
StartsWith(s, p) == Len(p) <= Len(s) /\ SubSeq(s, 1, Len(p)) = p

\* s.find(p) + 1 : the 1-based index of the first occurrence of p in s, 0 if none
Find(s, p) ==
    LET hits == {i \in 1..(Len(s) - Len(p) + 1) : SubSeq(s, i, i + Len(p) - 1) = p}
    IN  IF hits = {} THEN 0 ELSE CHOOSE i \in hits : \A j \in hits : i <= j

\* p in s
Contains(s, p) == Find(s, p) # 0

\* s.split(sep, 1)
SplitOnce(s, sep) ==
    LET i == Find(s, sep)
    IN  IF i = 0 THEN <<s>>
        ELSE <<SubSeq(s, 1, i - 1), Drop(s, i + Len(sep) - 1)>>

\* s.split(sep)
RECURSIVE Split(_, _)
Split(s, sep) ==
    LET i == Find(s, sep)
    IN  IF i = 0 THEN <<s>>
        ELSE <<SubSeq(s, 1, i - 1)>> \o Split(Drop(s, i + Len(sep) - 1), sep)

\* sep.join(parts)
RECURSIVE Join(_, _)
Join(parts, sep) ==
    IF Len(parts) = 0 THEN << >>
    ELSE IF Len(parts) = 1 THEN parts[1]
    ELSE parts[1] \o sep \o Join(Tail(parts), sep)

\* s.replace(old, new), old non-empty
RECURSIVE Replace(_, _, _)
Replace(s, old, new) ==
    LET i == Find(s, old)
    IN  IF i = 0 THEN s
        ELSE SubSeq(s, 1, i - 1) \o new \o Replace(Drop(s, i + Len(old) - 1), old, new)

\* s.lstrip(ch) for a one-character ch
RECURSIVE LStrip(_, _)
LStrip(s, ch) ==
    IF Len(s) > 0 /\ <<s[1]>> = ch THEN LStrip(Tail(s), ch) ELSE s

----------------------------------------------------------------------------
(* class PackageMetadata *)

\* PackageMetadata.__init__(purl)
NewMetadata(p) ==
    [purl |-> p, ecosystem |-> None, name |-> None, version |-> None,
     repo_url |-> None, license |-> None, description |-> None,
     homepage |-> None, latest_version |-> None, maintainers |-> << >>,
     source |-> None]

\* PackageMetadata.is_complete
IsComplete(m) ==
    Truthy(m.ecosystem) /\ Truthy(m.name) /\ Truthy(m.repo_url)

----------------------------------------------------------------------------
(* PackageDiscoveryService._parse_purl *)

\* the "@" branch with the version cut at "?" only
ParseVersionPartQmarkOnly(purl_body) ==
    IF Contains(purl_body, S_at)
    THEN LET sp == SplitOnce(purl_body, S_at)
         IN  [body |-> sp[1], version |-> Split(sp[2], S_qmark)[1]]
    ELSE [body |-> purl_body, version |-> None]

\* the "@" branch: (purl_body, version) after lines 246-250
ParseVersionPart(purl_body) ==
    IF Contains(purl_body, S_at)
    THEN LET sp == SplitOnce(purl_body, S_at)
         IN  [body |-> sp[1],
              version |-> Split(Split(sp[2], S_qmark)[1], S_hash)[1]]
    ELSE [body |-> purl_body, version |-> None]

\* _parse_purl with the name taken from the second segment alone
ParsePurlSecondSegment(p, m) ==
    IF ~StartsWith(p, S_pkg)
    THEN [ok |-> FALSE, md |-> m]
    ELSE LET vp == ParseVersionPart(Drop(p, 4))
             m1 == IF vp.version # None THEN [m EXCEPT !.version = vp.version] ELSE m
             parts == Split(vp.body, S_slash)
         IN  IF Len(parts) < 2
             THEN [ok |-> FALSE, md |-> m1]
             ELSE [ok |-> TRUE,
                   md |-> [m1 EXCEPT !.ecosystem = parts[1], !.name = parts[2]]]

\* _parse_purl(purl, metadata): the return value and metadata as mutated
ParsePurl(p, m) ==
    IF ~StartsWith(p, S_pkg)
    THEN [ok |-> FALSE, md |-> m]
    ELSE LET vp == ParseVersionPart(Drop(p, 4))
             m1 == IF vp.version # None THEN [m EXCEPT !.version = vp.version] ELSE m
             parts == Split(vp.body, S_slash)
         IN  IF Len(parts) < 2
             THEN [ok |-> FALSE, md |-> m1]
             ELSE [ok |-> TRUE,
                   md |-> [m1 EXCEPT !.ecosystem = parts[1],
                                     !.name = IF Len(parts) = 2 THEN parts[2]
                                              ELSE Join(Tail(parts), S_slash)]]

----------------------------------------------------------------------------
(* PackageDiscoveryService._merge_metadata *)

Range(f) == {f[i] : i \in DOMAIN f}

\* list(set(xs)): the distinct elements of xs, in an order the language does
\* not fix
ListOfSet(xs) ==
    LET S == Range(xs)
        n == Cardinality(S)
    IN  {f \in [1..n -> S] : Range(f) = S}

\* a merge that picks each scalar field with Pick and the maintainers with Maint
MergeUsing(Pick(_, _), Maint(_, _), base, new) ==
    {[purl |-> base.purl,
      ecosystem |-> Pick(base.ecosystem, new.ecosystem),
      name |-> Pick(base.name, new.name),
      version |-> Pick(base.version, new.version),
      repo_url |-> Pick(base.repo_url, new.repo_url),
      license |-> Pick(base.license, new.license),
      description |-> Pick(base.description, new.description),
      homepage |-> Pick(base.homepage, new.homepage),
      latest_version |-> Pick(base.latest_version, new.latest_version),
      maintainers |-> ms,
      source |-> Pick(base.source, new.source)]
     : ms \in Maint(base.maintainers, new.maintainers)}

UnionOrders(xs, ys) == ListOfSet(xs \o ys)

ConcatOnly(xs, ys) == {xs \o ys}

OrElseNone(a, b) == IF Truthy(a) THEN a ELSE IF Truthy(b) THEN b ELSE None

OrDropConflict(a, b) ==
    IF Truthy(a) /\ Truthy(b) /\ a # b THEN None ELSE Or(a, b)

\* a merge that turns an empty string into None
MergeMetadataNormalising(base, new) == MergeUsing(OrElseNone, UnionOrders, base, new)

\* a merge that appends the maintainer lists without removing duplicates
MergeMetadataConcat(base, new) == MergeUsing(Or, ConcatOnly, base, new)

\* a merge that drops a field on which base and new disagree
MergeMetadataDropConflicts(base, new) == MergeUsing(OrDropConflict, UnionOrders, base, new)

MergeMetadataPreferNew(base, new) ==
    {[purl |-> base.purl,
      ecosystem |-> Or(new.ecosystem, base.ecosystem),
      name |-> Or(new.name, base.name),
      version |-> Or(new.version, base.version),
      repo_url |-> Or(new.repo_url, base.repo_url),
      license |-> Or(new.license, base.license),
      description |-> Or(new.description, base.description),
      homepage |-> Or(new.homepage, base.homepage),
      latest_version |-> Or(new.latest_version, base.latest_version),
      maintainers |-> ms,
      source |-> Or(new.source, base.source)]
     : ms \in ListOfSet(base.maintainers \o new.maintainers)}

\* _merge_metadata(base, new): the records it can return
MergeMetadata(base, new) ==
    {[purl |-> base.purl,
      ecosystem |-> Or(base.ecosystem, new.ecosystem),
      name |-> Or(base.name, new.name),
      version |-> Or(base.version, new.version),
      repo_url |-> Or(base.repo_url, new.repo_url),
      license |-> Or(base.license, new.license),
      description |-> Or(base.description, new.description),
      homepage |-> Or(base.homepage, new.homepage),
      latest_version |-> Or(base.latest_version, new.latest_version),
      maintainers |-> ms,
      source |-> Or(base.source, new.source)]
     : ms \in ListOfSet(base.maintainers \o new.maintainers)}

----------------------------------------------------------------------------
(* discover(): the special-case resolvers, lines 140-175 *)

\* Answers of https://api.github.com/repos/<name>/releases/latest
\*   exc     the request raises (connection error, timeout)
\*   non200  a status other than 200
\*   badjson status 200, response.json() raises
\*   ok      status 200, a JSON object; tag_name is its "tag_name" ("" if absent)
V_1_2 == <<"1", ".", "2">>
V_v1_2 == <<"v", "1", ".", "2">>

GitHubResponses ==
    {[kind |-> "exc", tag_name |-> EmptyStr],
     [kind |-> "non200", tag_name |-> EmptyStr],
     [kind |-> "badjson", tag_name |-> EmptyStr],
     [kind |-> "ok", tag_name |-> EmptyStr],
     [kind |-> "ok", tag_name |-> V_1_2],
     [kind |-> "ok", tag_name |-> V_v1_2],
     [kind |-> "ok", tag_name |-> S_v]}

\* no release lookup was made
NoAnswer == [kind |-> "not asked", tag_name |-> EmptyStr]

\* the guard of lines 141-143
GitHubApplies(m) ==
    m.ecosystem = S_github /\ Truthy(m.name) /\ Contains(m.name, S_slash)

\* lines 144-160: metadata after the GitHub resolver got answer resp
GitHubResolve(m, resp) ==
    LET m1 == [m EXCEPT !.repo_url = S_https_github \o m.name]
    IN  IF resp.kind = "ok"
        THEN [m1 EXCEPT !.latest_version =
                 IF Truthy(resp.tag_name) THEN LStrip(resp.tag_name, S_v) ELSE None]
        ELSE m1

\* the Go resolver taking the whole module path instead of its first three segments
GoResolveWholeName(m) ==
    IF m.ecosystem \in {S_golang, S_go}
       /\ (StartsWith(m.name, S_github_com_slash) \/ StartsWith(m.name, S_gitlab_com_slash))
       /\ Len(Split(m.name, S_slash)) >= 3
    THEN [m EXCEPT !.repo_url = S_https \o m.name]
    ELSE m

\* lines 163-175: metadata after the Go resolver
GoResolve(m) ==
    IF m.ecosystem \in {S_golang, S_go}
    THEN IF StartsWith(m.name, S_github_com_slash) \/ StartsWith(m.name, S_gitlab_com_slash)
         THEN LET parts == Split(m.name, S_slash)
              IN  IF Len(parts) >= 3
                  THEN [m EXCEPT !.repo_url = S_https \o Join(SubSeq(parts, 1, 3), S_slash)]
                  ELSE m
         ELSE m
    ELSE m

----------------------------------------------------------------------------
(* The outcome of awaiting a fetcher:                                      *)
(*   kind  "rec" it returned a PackageMetadata, "none" it returned None,   *)
(*         "raise" an exception left it                                    *)
(*   rec   the returned record (kind "rec")                                *)
(*   calls the HTTP requests it made, in order                             *)

Returned(rec, calls) == [kind |-> "rec", rec |-> rec, calls |-> calls]
ReturnedNone(m, calls) == [kind |-> "none", rec |-> NewMetadata(m.purl), calls |-> calls]
Raised(m, calls) == [kind |-> "raise", rec |-> NewMetadata(m.purl), calls |-> calls]

\* result = PackageMetadata(metadata.purl) seeded with ecosystem, name, version
SeedResult(m) ==
    [NewMetadata(m.purl) EXCEPT !.ecosystem = m.ecosystem, !.name = m.name,
                                !.version = m.version]

S_upper == <<"A", "B", "C", "D", "E", "F", "G", "H", "I", "J", "K", "L", "M", "N", "O", "P", "Q", "R", "S", "T", "U", "V", "W", "X", "Y", "Z">>
S_lower == <<"a", "b", "c", "d", "e", "f", "g", "h", "i", "j", "k", "l", "m", "n", "o", "p", "q", "r", "s", "t", "u", "v", "w", "x", "y", "z">>

\* s.lower()
LowerChar(c) ==
    IF \E i \in 1..Len(S_upper) : S_upper[i] = c
    THEN S_lower[CHOOSE i \in 1..Len(S_upper) : S_upper[i] = c]
    ELSE c

Lower(s) == [i \in 1..Len(s) |-> LowerChar(s[i])]

\* all sequences over S of length at most n
SeqsUpTo(S, n) == UNION {[1..k -> S] : k \in 0..n}

----------------------------------------------------------------------------
(* PackageDiscoveryService._fetch_deps_dev *)

S_lic_MIT == <<"M", "I", "T">>
S_lic_Apache == <<"A", "p", "a", "c", "h", "e", "-", "2", ".", "0">>
S_ver_old == <<"4", ".", "1", "8", ".", "0">>
S_ver_new == <<"4", ".", "1", "8", ".", "2">>
U_repo_git == <<"g", "i", "t", "+", "h", "t", "t", "p", "s", ":", "/", "/", "g", "i", "t", "h", "u", "b", ".", "c", "o", "m", "/", "e", "x", "p", "r", "e", "s", "s", "j", "s", "/", "e", "x", "p", "r", "e", "s", "s", ".", "g", "i", "t">>
U_repo_issues == <<"h", "t", "t", "p", "s", ":", "/", "/", "G", "i", "t", "H", "u", "b", ".", "c", "o", "m", "/", "e", "x", "p", "r", "e", "s", "s", "j", "s", "/", "e", "x", "p", "r", "e", "s", "s", "/", "i", "s", "s", "u", "e", "s">>
U_repo_gitlab == <<"h", "t", "t", "p", "s", ":", "/", "/", "g", "i", "t", "l", "a", "b", ".", "c", "o", "m", "/", "o", "t", "h", "e", "r", "/", "f", "o", "r", "k">>
U_home == <<"h", "t", "t", "p", "s", ":", "/", "/", "e", "x", "p", "r", "e", "s", "s", "j", "s", ".", "c", "o", "m">>
S_label_repo == <<"S", "O", "U", "R", "C", "E", "_", "R", "E", "P", "O">>
S_label_home == <<"H", "O", "M", "E", "P", "A", "G", "E">>
S_label_issues == <<"I", "S", "S", "U", "E", "_", "T", "R", "A", "C", "K", "E", "R">>

\* system_map
DepsDevSystemMap ==
    [e \in {S_npm, S_pypi, S_maven, S_golang, S_cargo, S_go, S_nuget} |->
        IF e \in {S_golang, S_go} THEN S_go ELSE e]

\* system_map.get(ecosystem, ecosystem): an unknown ecosystem is passed on
DepsDevSystemPassThrough(eco) ==
    IF eco \in DOMAIN DepsDevSystemMap THEN DepsDevSystemMap[eco] ELSE eco

\* system_map.get(ecosystem)
DepsDevSystem(eco) ==
    IF eco \in DOMAIN DepsDevSystemMap THEN DepsDevSystemMap[eco] ELSE None

\* the links a version answer can list
MaxLinks == 2

LinkPool ==
    {[label |-> S_label_repo, url |-> U_repo_git],
     [label |-> S_label_issues, url |-> U_repo_issues],
     [label |-> S_label_repo, url |-> U_repo_gitlab],
     [label |-> S_label_home, url |-> U_home]}

\* Answers of the two deps.dev requests of one call:
\*   pkg   the package request: "exc" it raises, "non200", "badjson"
\*         (response.json() raises), "ok" with the "versions" list
\*   ver   the version request: "exc", "non200", "badjson", "ok" with the
\*         "links" and "licenses" lists
DepsDevResponses ==
    {[pkg |-> k, versions |-> << >>, ver |-> "exc", links |-> << >>, licenses |-> << >>]
        : k \in {"exc", "non200", "badjson"}}
    \cup
    {[pkg |-> "ok", versions |-> vs, ver |-> k, links |-> << >>, licenses |-> << >>]
        : vs \in {<< >>, <<S_ver_old, S_ver_new>>}, k \in {"exc", "non200", "badjson"}}
    \cup
    {[pkg |-> "ok", versions |-> vs, ver |-> "ok", links |-> ls, licenses |-> lic]
        : vs \in {<< >>, <<S_ver_old, S_ver_new>>},
          ls \in SeqsUpTo(LinkPool, MaxLinks),
          lic \in {<< >>, <<S_lic_MIT, S_lic_Apache>>}}

ForgeHosts == <<S_github_com, S_gitlab_com, S_bitbucket_org>>

\* line 340
IsForgeUrl(url_val) ==
    \E i \in 1..Len(ForgeHosts) : Contains(Lower(url_val), ForgeHosts[i])

PathSuffixes == <<S_issues, S_pulls, S_wiki, S_tree, S_blob>>

\* lines 344-346: the loop over the suffixes, from suffix i on
RECURSIVE CutSuffixes(_, _)
CutSuffixes(cleaned_url, i) ==
    IF i > Len(PathSuffixes) THEN cleaned_url
    ELSE CutSuffixes(IF Contains(cleaned_url, PathSuffixes[i])
                     THEN Split(cleaned_url, PathSuffixes[i])[1]
                     ELSE cleaned_url, i + 1)

\* cleaning that removes "git+" and nothing else
CleanRepoUrlPrefixOnly(url_val) == Replace(url_val, S_git_plus, EmptyStr)

\* lines 342-346
CleanRepoUrl(url_val) ==
    CutSuffixes(Replace(Replace(url_val, S_git_plus, EmptyStr), S_dot_git, EmptyStr), 1)

\* lines 335-350: the loop over version_data["links"], from link i on
RECURSIVE ClassifyLinks(_, _, _)
ClassifyLinks(result, links, i) ==
    IF i > Len(links) THEN result
    ELSE LET label == Lower(links[i].label)
             url_val == links[i].url
             r1 == IF IsForgeUrl(url_val)
                   THEN IF ~Truthy(result.repo_url)
                        THEN [result EXCEPT !.repo_url = CleanRepoUrl(url_val)]
                        ELSE result
                   ELSE IF Contains(label, S_homepage) /\ ~Truthy(result.homepage)
                        THEN [result EXCEPT !.homepage = url_val]
                        ELSE result
         IN  ClassifyLinks(r1, links, i + 1)

\* _fetch_deps_dev(metadata) when the network answers resp
FetchDepsDev(m, resp) ==
    IF ~Truthy(DepsDevSystem(m.ecosystem)) THEN ReturnedNone(m, << >>)
    ELSE IF resp.pkg = "exc" THEN Raised(m, <<"deps.dev/package">>)
    ELSE IF resp.pkg = "non200" THEN ReturnedNone(m, <<"deps.dev/package">>)
    ELSE IF resp.pkg = "badjson" THEN Raised(m, <<"deps.dev/package">>)
    ELSE LET r0 == SeedResult(m)
             r1 == IF Len(resp.versions) > 0
                   THEN [r0 EXCEPT !.latest_version = resp.versions[Len(resp.versions)]]
                   ELSE r0
             r2 == ClassifyLinks(r1, resp.links, 1)
             r3 == IF Len(resp.licenses) > 0
                   THEN [r2 EXCEPT !.license = resp.licenses[1]]
                   ELSE r2
             calls == <<"deps.dev/package", "deps.dev/version">>
         IN  IF resp.ver = "ok" THEN Returned(r3, calls) ELSE Returned(r1, calls)

----------------------------------------------------------------------------
(* PackageDiscoveryService._fetch_clearlydefined *)

S_crate == <<"c", "r", "a", "t", "e">>
S_expressjs == <<"e", "x", "p", "r", "e", "s", "s", "j", "s">>
S_express == <<"e", "x", "p", "r", "e", "s", "s">>
U_cd_home == <<"h", "t", "t", "p", "s", ":", "/", "/", "e", "x", "p", "r", "e", "s", "s", "j", "s", ".", "c", "o", "m", "/", "c", "d">>

\* type_map
ClearlyDefinedTypeMap ==
    [e \in {S_npm, S_pypi, S_maven, S_golang, S_go, S_cargo, S_nuget, S_gem} |->
        IF e \in {S_golang, S_go} THEN S_go
        ELSE IF e = S_cargo THEN S_crate ELSE e]

\* type_map.get(ecosystem)
ClearlyDefinedType(eco) ==
    IF eco \in DOMAIN ClearlyDefinedTypeMap THEN ClearlyDefinedTypeMap[eco] ELSE None

\* described["sourceLocation"] values; NoSourceLocation: the key is absent
NoSourceLocation == [type |-> None, provider |-> None, namespace |-> None, name |-> None]

SourceLocations ==
    {NoSourceLocation,
     [type |-> S_git, provider |-> S_github_com, namespace |-> S_expressjs, name |-> S_express],
     [type |-> S_git, provider |-> S_github_com, namespace |-> EmptyStr, name |-> S_express],
     [type |-> S_npm, provider |-> S_github_com, namespace |-> S_expressjs, name |-> S_express]}

\* Answers of the definitions request:
\*   kind "exc" it raises, "non200", "badjson" (response.json() raises),
\*        "ok" a JSON object whose "described" holds license (None: absent),
\*        sourceLocation and projectWebsite (None: absent)
ClearlyDefinedResponses ==
    {[kind |-> k, license |-> None, sourceLocation |-> NoSourceLocation,
      projectWebsite |-> None] : k \in {"exc", "non200", "badjson"}}
    \cup
    {[kind |-> "ok", license |-> lic, sourceLocation |-> sl, projectWebsite |-> pw]
        : lic \in {None, S_lic_Apache}, sl \in SourceLocations, pw \in {None, U_cd_home}}

\* lines 429-437
ClearlyDefinedRepoUrl(sl) ==
    IF sl # NoSourceLocation /\ sl.type = S_git
       /\ Truthy(sl.provider) /\ Truthy(sl.namespace) /\ Truthy(sl.name)
    THEN S_https \o sl.provider \o S_slash \o sl.namespace \o S_slash \o sl.name
    ELSE None

\* _fetch_clearlydefined(metadata) when the network answers resp
FetchClearlyDefined(m, resp) ==
    IF ~Truthy(ClearlyDefinedType(m.ecosystem)) THEN ReturnedNone(m, << >>)
    ELSE IF resp.kind = "exc" THEN Raised(m, <<"clearlydefined">>)
    ELSE IF resp.kind \in {"non200", "badjson"} THEN ReturnedNone(m, <<"clearlydefined">>)
    ELSE Returned([SeedResult(m) EXCEPT
                      !.license = resp.license,
                      !.repo_url = ClearlyDefinedRepoUrl(resp.sourceLocation),
                      !.homepage = resp.projectWebsite],
                  <<"clearlydefined">>)

----------------------------------------------------------------------------
(* The placeholder fetchers *)

\* _fetch_purl2src(metadata)
FetchPurl2src(m) == ReturnedNone(m, << >>)

\* _fetch_upmex(metadata)
FetchUpmex(m) == ReturnedNone(m, << >>)

----------------------------------------------------------------------------
(* PackageDiscoveryService._fetch_serpapi *)

S_colon == <<":">>
S_scheme_tail == <<"+", "-", ".", "0", "1", "2", "3", "4", "5", "6", "7", "8", "9">>
U_serp_repo == <<"h", "t", "t", "p", "s", ":", "/", "/", "g", "i", "t", "h", "u", "b", ".", "c", "o", "m", "/", "e", "x", "p", "r", "e", "s", "s", "j", "s", "/", "e", "x", "p", "r", "e", "s", "s", "/", "t", "r", "e", "e", "/", "m", "a", "s", "t", "e", "r">>
U_serp_other == <<"h", "t", "t", "p", "s", ":", "/", "/", "g", "i", "t", "h", "u", "b", ".", "c", "o", "m", "/", "s", "e", "a", "r", "c", "h", "h", "i", "t", "/", "m", "i", "r", "r", "o", "r">>
U_serp_short == <<"h", "t", "t", "p", "s", ":", "/", "/", "g", "i", "t", "h", "u", "b", ".", "c", "o", "m", "/", "e", "x", "p", "r", "e", "s", "s", "j", "s">>
U_serp_nogit == <<"h", "t", "t", "p", "s", ":", "/", "/", "w", "w", "w", ".", "n", "p", "m", "j", "s", ".", "c", "o", "m", "/", "p", "a", "c", "k", "a", "g", "e", "/", "e", "x", "p", "r", "e", "s", "s">>
S_snippet == <<"F", "a", "s", "t", " ", "w", "e", "b", " ", "f", "r", "a", "m", "e", "w", "o", "r", "k">>
S_key == <<"s", "e", "c", "r", "e", "t">>

\* s.strip("/")
RECURSIVE RStrip(_, _)
RStrip(s, ch) ==
    IF Len(s) > 0 /\ <<s[Len(s)]>> = ch THEN RStrip(SubSeq(s, 1, Len(s) - 1), ch) ELSE s

Strip(s, ch) == RStrip(LStrip(s, ch), ch)

\* the first index of s at which one of the characters of chars stands,
\* Len(s) + 1 if none
FirstOf(s, chars) ==
    LET hits == {i \in 1..Len(s) : s[i] \in Range(chars)}
    IN  IF hits = {} THEN Len(s) + 1 ELSE CHOOSE i \in hits : \A j \in hits : i <= j

\* whether s can be the scheme of a URL (urllib.parse.urlsplit)
IsScheme(s) ==
    /\ Len(s) > 0
    /\ s[1] \in Range(S_upper) \cup Range(S_lower)
    /\ \A i \in 1..Len(s) : s[i] \in Range(S_upper) \cup Range(S_lower) \cup Range(S_scheme_tail)

\* urlparse(link).path
UrlPath(link) ==
    LET c == Find(link, S_colon)
        rest == IF c > 1 /\ IsScheme(SubSeq(link, 1, c - 1)) THEN Drop(link, c) ELSE link
        afterNetloc ==
            IF StartsWith(rest, S_slash \o S_slash)
            THEN LET r2 == Drop(rest, 2)
                 IN  Drop(r2, FirstOf(r2, S_slash \o S_qmark \o S_hash) - 1)
            ELSE rest
    IN  Take(afterNetloc, FirstOf(afterNetloc, S_qmark \o S_hash) - 1)

\* the organic results an answer can list
MaxResults == 2

ResultPool ==
    {[link |-> U_serp_repo, snippet |-> S_snippet],
     [link |-> U_serp_other, snippet |-> None],
     [link |-> U_serp_short, snippet |-> S_snippet],
     [link |-> U_serp_nogit, snippet |-> S_snippet]}

\* Answers of the search request: kind "exc" it raises, "non200", "badjson"
\* (response.json() raises), "ok" with the "organic_results" list
SerpapiResponses ==
    {[kind |-> k, organic_results |-> << >>] : k \in {"exc", "non200", "badjson"}}
    \cup
    {[kind |-> "ok", organic_results |-> rs] : rs \in SeqsUpTo(ResultPool, MaxResults)}

\* lines 498-518: the loop over organic_results, from result i on
RECURSIVE ScanResults(_, _, _)
ScanResults(m, results, i) ==
    IF i > Len(results) THEN ReturnedNone(m, <<"serpapi">>)
    ELSE LET link == results[i].link
             path_parts == Split(Strip(UrlPath(link), S_slash), S_slash)
         IN  IF Contains(link, S_github_com) /\ Len(path_parts) >= 2
             THEN Returned([SeedResult(m) EXCEPT
                               !.repo_url = S_https_github \o path_parts[1]
                                            \o S_slash \o path_parts[2],
                               !.description = results[i].snippet],
                           <<"serpapi">>)
             ELSE ScanResults(m, results, i + 1)

\* _fetch_serpapi(metadata) when the network answers resp
FetchSerpapi(m, key, resp) ==
    IF ~Truthy(key) THEN ReturnedNone(m, << >>)
    ELSE IF resp.kind \in {"exc", "badjson"} THEN Raised(m, <<"serpapi">>)
    ELSE IF resp.kind = "non200" THEN ReturnedNone(m, <<"serpapi">>)
    ELSE ScanResults(m, resp.organic_results, 1)

----------------------------------------------------------------------------
(* _merge_metadata called on its own *)

\* no such call is made
NoCall == [at |-> "none"]

----------------------------------------------------------------------------
(* discover(): the requests *)

P_npm == <<"p", "k", "g", ":", "n", "p", "m", "/", "e", "x", "p", "r", "e", "s", "s">>
P_npm_ver == <<"p", "k", "g", ":", "n", "p", "m", "/", "e", "x", "p", "r", "e", "s", "s", "@", "4", ".", "1", "8", ".", "0">>
P_noscheme == <<"n", "p", "m", "/", "e", "x", "p", "r", "e", "s", "s">>
P_noname == <<"p", "k", "g", ":", "n", "p", "m">>
P_github == <<"p", "k", "g", ":", "g", "i", "t", "h", "u", "b", "/", "e", "x", "p", "r", "e", "s", "s", "j", "s", "/", "e", "x", "p", "r", "e", "s", "s">>
P_github_flat == <<"p", "k", "g", ":", "g", "i", "t", "h", "u", "b", "/", "e", "x", "p", "r", "e", "s", "s">>
P_golang == <<"p", "k", "g", ":", "g", "o", "l", "a", "n", "g", "/", "g", "i", "t", "h", "u", "b", ".", "c", "o", "m", "/", "g", "o", "r", "i", "l", "l", "a", "/", "m", "u", "x">>
P_go_gitlab == <<"p", "k", "g", ":", "g", "o", "/", "g", "i", "t", "l", "a", "b", ".", "c", "o", "m", "/", "a", "/", "b", "/", "c">>
P_go_short == <<"p", "k", "g", ":", "g", "o", "l", "a", "n", "g", "/", "g", "i", "t", "h", "u", "b", ".", "c", "o", "m", "/", "m", "u", "x">>
P_go_other == <<"p", "k", "g", ":", "g", "o", "l", "a", "n", "g", "/", "e", "x", "a", "m", "p", "l", "e", ".", "o", "r", "g", "/", "x", "/", "y">>
P_gem == <<"p", "k", "g", ":", "g", "e", "m", "/", "r", "a", "i", "l", "s">>
P_empty_eco == <<"p", "k", "g", ":", "/", "e", "x", "p", "r", "e", "s", "s">>
P_empty_name == <<"p", "k", "g", ":", "n", "p", "m", "/">>
P_empty_both == <<"p", "k", "g", ":", "/">>
P_maven == <<"p", "k", "g", ":", "m", "a", "v", "e", "n", "/", "o", "r", "g", ".", "x", "/", "a", "r", "t", "@", "1", "?", "t", "y", "p", "e", "=", "j", "a", "r">>
P_hex == <<"p", "k", "g", ":", "h", "e", "x", "/", "p", "h", "o", "e", "n", "i", "x">>

\* the identifiers the requests are made with
PurlInputs ==
    {P_npm, P_npm_ver, P_noscheme, P_noname, P_github, P_github_flat, P_golang,
     P_go_gitlab, P_go_short, P_go_other, P_gem, P_empty_eco, P_empty_name,
     P_empty_both, P_maven, P_hex}

\* the value number k of field f: None, the empty string, or one of two texts
FieldVal(f, k) ==
    IF k = 0 THEN None ELSE IF k = 1 THEN EmptyStr
    ELSE IF k = 2 THEN <<"x", f>> ELSE <<"y", f>>

M_alice == <<"a", "l", "i", "c", "e">>
M_bob == <<"b", "o", "b">>

\* the maintainer list number k: empty, one entry, two entries, a repeated entry
MaintainerList(k) ==
    IF k = 0 THEN << >> ELSE IF k = 1 THEN <<M_alice>>
    ELSE IF k = 2 THEN <<M_bob, M_alice>> ELSE <<M_alice, M_alice>>

\* a record whose fields take value number k1 (ecosystem, version, license,
\* homepage, source) or k2 (name, repo_url, description, latest_version) and
\* whose maintainers are list number k2
MergeRecord(k1, k2) ==
    [purl |-> IF k1 < 2 THEN P_npm ELSE P_gem,
     ecosystem |-> FieldVal("ecosystem", k1),
     name |-> FieldVal("name", k2),
     version |-> FieldVal("version", k1),
     repo_url |-> FieldVal("repo_url", k2),
     license |-> FieldVal("license", k1),
     description |-> FieldVal("description", k2),
     homepage |-> FieldVal("homepage", k1),
     latest_version |-> FieldVal("latest_version", k2),
     maintainers |-> MaintainerList(k2),
     source |-> FieldVal("source", k1)]

\* the records _merge_metadata is called with
MergeRecords == {MergeRecord(k1, k2) : k1 \in 0..3, k2 \in 0..3}

\* the serpapi_key values a service is constructed with
KeyInputs == {None, S_key}

\* the requests; Spec runs request 1 alone
Reqs == {1, 2}

Pending == [kind |-> "pending", rec |-> NewMetadata(None), missing |-> << >>]

\* the sources list with serpapi appended whether or not a key was given
SourcesAlwaysSerpapi(key) ==
    <<S_deps_dev, S_clearlydefined, S_purl2src, S_upmex, S_serpapi>>

\* lines 178-187: the sources list
Sources(key) ==
    <<S_deps_dev, S_clearlydefined, S_purl2src, S_upmex>>
    \o (IF Truthy(key) THEN <<S_serpapi>> ELSE << >>)

Invoked(r) == [i \in 1..Len(fetched[r]) |-> fetched[r][i].source]

IdleRequest(r) ==
    /\ pc[r] = "idle"
    /\ purl[r] = EmptyStr
    /\ allow_partial[r] = FALSE

InitRequests(started) ==
    /\ serpapi_key \in KeyInputs
    /\ pc = [r \in Reqs |-> IF r \in started THEN "parsing" ELSE "idle"]
    /\ purl \in [Reqs -> PurlInputs \cup {EmptyStr}]
    /\ allow_partial \in [Reqs -> BOOLEAN]
    /\ \A r \in Reqs : IF r \in started THEN purl[r] \in PurlInputs ELSE IdleRequest(r)
    /\ metadata = [r \in Reqs |-> NewMetadata(purl[r])]
    /\ idx = [r \in Reqs |-> 0]
    /\ outcome = [r \in Reqs |-> Pending]
    /\ net = [r \in Reqs |-> << >>]
    /\ contrib = [r \in Reqs |-> << >>]
    /\ fetched = [r \in Reqs |-> << >>]
    /\ release = [r \in Reqs |-> NoAnswer]

Init == InitRequests({1}) /\ call = NoCall

----------------------------------------------------------------------------
(* discover(): one action per step between two suspension points *)

NoRecord == NewMetadata(None)

\* Parse with the return value of _parse_purl ignored
ParseUnchecked(r) ==
    /\ pc[r] = "parsing"
    /\ metadata' = [metadata EXCEPT ![r] = ParsePurl(purl[r], metadata[r]).md]
    /\ pc' = [pc EXCEPT ![r] = "special_github"]
    /\ UNCHANGED <<serpapi_key, purl, allow_partial, release, call, idx, outcome, net, contrib, fetched>>

\* lines 135-136: parse, raise ValueError("Invalid PURL format") on failure
Parse(r) ==
    /\ pc[r] = "parsing"
    /\ LET p == ParsePurl(purl[r], metadata[r])
       IN  IF ~p.ok
           THEN /\ outcome' = [outcome EXCEPT ![r] =
                       [kind |-> "invalid_purl", rec |-> NoRecord, missing |-> << >>]]
                /\ pc' = [pc EXCEPT ![r] = "failed"]
                /\ UNCHANGED metadata
           ELSE /\ metadata' = [metadata EXCEPT ![r] = p.md]
                /\ pc' = [pc EXCEPT ![r] = "special_github"]
                /\ UNCHANGED outcome
    /\ UNCHANGED <<serpapi_key, purl, allow_partial, release, call, idx, net, contrib, fetched>>

\* what a resolver contributed: the fields of after that differ from before
Contribution(by, before, after) ==
    [by |-> by,
     rec |-> [NewMetadata(before.purl) EXCEPT
                 !.repo_url = IF after.repo_url # before.repo_url
                              THEN after.repo_url ELSE None,
                 !.latest_version = IF after.latest_version # before.latest_version
                                    THEN after.latest_version ELSE None]]

\* SpecialGitHub without the try/except of lines 148 and 159-160
SpecialGitHubNoCatch(r) ==
    /\ pc[r] = "special_github"
    /\ IF GitHubApplies(metadata[r])
       THEN \E resp \in GitHubResponses :
              LET m == GitHubResolve(metadata[r], resp)
              IN  /\ metadata' = [metadata EXCEPT ![r] = m]
                  /\ net' = [net EXCEPT ![r] = Append(@, "api.github.com")]
                  /\ contrib' = [contrib EXCEPT ![r] =
                         Append(@, Contribution("github", metadata[r], m))]
                  /\ release' = [release EXCEPT ![r] = resp]
                  /\ IF resp.kind \in {"exc", "badjson"}
                     THEN /\ pc' = [pc EXCEPT ![r] = "failed"]
                          /\ outcome' = [outcome EXCEPT ![r] =
                                 [kind |-> "error", rec |-> NoRecord, missing |-> << >>]]
                     ELSE /\ pc' = [pc EXCEPT ![r] = "special_go"]
                          /\ UNCHANGED outcome
       ELSE /\ pc' = [pc EXCEPT ![r] = "special_go"]
            /\ UNCHANGED <<metadata, net, contrib, release, outcome>>
    /\ UNCHANGED <<serpapi_key, purl, allow_partial, call, idx, fetched>>

\* lines 141-160: the GitHub resolver and its release lookup
SpecialGitHub(r) ==
    /\ pc[r] = "special_github"
    /\ IF GitHubApplies(metadata[r])
       THEN \E resp \in GitHubResponses :
              LET m == GitHubResolve(metadata[r], resp)
              IN  /\ metadata' = [metadata EXCEPT ![r] = m]
                  /\ net' = [net EXCEPT ![r] = Append(@, "api.github.com")]
                  /\ contrib' = [contrib EXCEPT ![r] =
                         Append(@, Contribution("github", metadata[r], m))]
                  /\ release' = [release EXCEPT ![r] = resp]
       ELSE UNCHANGED <<metadata, net, contrib, release>>
    /\ pc' = [pc EXCEPT ![r] = "special_go"]
    /\ UNCHANGED <<serpapi_key, purl, allow_partial, call, idx, outcome, fetched>>

\* lines 163-187: the Go resolver, then the sources list is built
SpecialGo(r) ==
    /\ pc[r] = "special_go"
    /\ LET m == GoResolve(metadata[r])
       IN  /\ metadata' = [metadata EXCEPT ![r] = m]
           /\ contrib' = [contrib EXCEPT ![r] =
                  IF m # metadata[r]
                  THEN Append(@, Contribution("go", metadata[r], m)) ELSE @]
    /\ pc' = [pc EXCEPT ![r] = "try"]
    /\ idx' = [idx EXCEPT ![r] = 1]
    /\ UNCHANGED <<serpapi_key, purl, allow_partial, release, call, outcome, net, fetched>>

ShortCircuitsNever(out) == FALSE

\* line 194: result and result.is_complete
ShortCircuits(out) == out.kind = "rec" /\ IsComplete(out.rec)

StampSourceNot(rec, source_name) == rec

\* line 195: result.source = source_name
StampSource(rec, source_name) == [rec EXCEPT !.source = source_name]

\* a for statement that starts the list again at its end
AdvanceRestart(r) ==
    /\ idx' = [idx EXCEPT ![r] = IF @ < Len(Sources(serpapi_key)) THEN @ + 1 ELSE 1]
    /\ UNCHANGED pc

\* the for statement: the next source, or the end of the loop
Advance(r) ==
    IF idx[r] < Len(Sources(serpapi_key))
    THEN /\ idx' = [idx EXCEPT ![r] = @ + 1]
         /\ UNCHANGED pc
    ELSE /\ pc' = [pc EXCEPT ![r] = "validate"]
         /\ UNCHANGED idx

\* LoopBody without the try/except of lines 190 and 203-205
LoopBodyNoCatch(r, source_name, out) ==
    /\ fetched' = [fetched EXCEPT ![r] =
           Append(@, [source |-> source_name, kind |-> out.kind, rec |-> out.rec,
                      before |-> metadata[r]])]
    /\ net' = [net EXCEPT ![r] = @ \o out.calls]
    /\ IF ShortCircuits(out)
       THEN /\ outcome' = [outcome EXCEPT ![r] =
                   [kind |-> "returned", rec |-> StampSource(out.rec, source_name),
                    missing |-> << >>]]
            /\ pc' = [pc EXCEPT ![r] = "returned"]
            /\ contrib' = [contrib EXCEPT ![r] =
                   Append(@, [by |-> "provider", rec |-> out.rec])]
            /\ UNCHANGED <<metadata, idx>>
       ELSE IF out.kind = "rec"
       THEN /\ \E m \in MergeMetadata(metadata[r], out.rec) :
                   metadata' = [metadata EXCEPT ![r] = m]
            /\ contrib' = [contrib EXCEPT ![r] =
                   Append(@, [by |-> "provider", rec |-> out.rec])]
            /\ Advance(r)
            /\ UNCHANGED outcome
       ELSE IF out.kind = "raise"
       THEN /\ outcome' = [outcome EXCEPT ![r] =
                   [kind |-> "error", rec |-> NoRecord, missing |-> << >>]]
            /\ pc' = [pc EXCEPT ![r] = "failed"]
            /\ UNCHANGED <<metadata, idx, contrib>>
       ELSE /\ Advance(r)
            /\ UNCHANGED <<metadata, outcome, contrib>>
    /\ UNCHANGED <<serpapi_key, purl, allow_partial, release, call>>

\* LoopBody with the accumulator kept on the service and shared by all requests
LoopBodySharedAccumulator(r, source_name, out) ==
    /\ fetched' = [fetched EXCEPT ![r] =
           Append(@, [source |-> source_name, kind |-> out.kind, rec |-> out.rec,
                      before |-> metadata[r]])]
    /\ net' = [net EXCEPT ![r] = @ \o out.calls]
    /\ IF ShortCircuits(out)
       THEN /\ outcome' = [outcome EXCEPT ![r] =
                   [kind |-> "returned", rec |-> StampSource(out.rec, source_name),
                    missing |-> << >>]]
            /\ pc' = [pc EXCEPT ![r] = "returned"]
            /\ contrib' = [contrib EXCEPT ![r] =
                   Append(@, [by |-> "provider", rec |-> out.rec])]
            /\ UNCHANGED <<metadata, idx>>
       ELSE IF out.kind = "rec"
       THEN /\ \E m \in MergeMetadata(metadata[r], out.rec) :
                   metadata' = [q \in Reqs |-> m]
            /\ contrib' = [contrib EXCEPT ![r] =
                   Append(@, [by |-> "provider", rec |-> out.rec])]
            /\ Advance(r)
            /\ UNCHANGED outcome
       ELSE /\ Advance(r)
            /\ UNCHANGED <<metadata, outcome, contrib>>
    /\ UNCHANGED <<serpapi_key, purl, allow_partial, release, call>>

\* lines 189-205: one iteration of the loop, the fetcher having done out
LoopBody(r, source_name, out) ==
    /\ fetched' = [fetched EXCEPT ![r] =
           Append(@, [source |-> source_name, kind |-> out.kind, rec |-> out.rec,
                      before |-> metadata[r]])]
    /\ net' = [net EXCEPT ![r] = @ \o out.calls]
    /\ IF ShortCircuits(out)
       THEN /\ outcome' = [outcome EXCEPT ![r] =
                   [kind |-> "returned", rec |-> StampSource(out.rec, source_name),
                    missing |-> << >>]]
            /\ pc' = [pc EXCEPT ![r] = "returned"]
            /\ contrib' = [contrib EXCEPT ![r] =
                   Append(@, [by |-> "provider", rec |-> out.rec])]
            /\ UNCHANGED <<metadata, idx>>
       ELSE IF out.kind = "rec"
       THEN /\ \E m \in MergeMetadata(metadata[r], out.rec) :
                   metadata' = [metadata EXCEPT ![r] = m]
            /\ contrib' = [contrib EXCEPT ![r] =
                   Append(@, [by |-> "provider", rec |-> out.rec])]
            /\ Advance(r)
            /\ UNCHANGED outcome
       ELSE /\ Advance(r)
            /\ UNCHANGED <<metadata, outcome, contrib>>
    /\ UNCHANGED <<serpapi_key, purl, allow_partial, release, call>>

\* the source the loop is at
AtSource(r, source_name) ==
    /\ pc[r] = "try"
    /\ Sources(serpapi_key)[idx[r]] = source_name

TryDepsDev(r) ==
    /\ AtSource(r, S_deps_dev)
    /\ \E resp \in DepsDevResponses :
          LoopBody(r, S_deps_dev, FetchDepsDev(metadata[r], resp))

TryClearlyDefined(r) ==
    /\ AtSource(r, S_clearlydefined)
    /\ \E resp \in ClearlyDefinedResponses :
          LoopBody(r, S_clearlydefined, FetchClearlyDefined(metadata[r], resp))

TryPurl2src(r) ==
    /\ AtSource(r, S_purl2src)
    /\ LoopBody(r, S_purl2src, FetchPurl2src(metadata[r]))

TryUpmex(r) ==
    /\ AtSource(r, S_upmex)
    /\ LoopBody(r, S_upmex, FetchUpmex(metadata[r]))

TrySerpapi(r) ==
    /\ AtSource(r, S_serpapi)
    /\ \E resp \in SerpapiResponses :
          LoopBody(r, S_serpapi, FetchSerpapi(metadata[r], serpapi_key, resp))

MissingRepoUrlOnly(m) == <<S_repo_url>>

\* lines 209-215: the missing list
Missing(m) ==
    (IF ~Truthy(m.ecosystem) THEN <<S_ecosystem>> ELSE << >>)
    \o (IF ~Truthy(m.name) THEN <<S_name>> ELSE << >>)
    \o (IF ~Truthy(m.repo_url) THEN <<S_repo_url>> ELSE << >>)

MustFailAlways(partial, m) == ~IsComplete(m)

MustFailInverted(partial, m) == partial /\ ~IsComplete(m)

\* line 208: not allow_partial and not metadata.is_complete
MustFail(partial, m) == ~partial /\ ~IsComplete(m)

\* lines 207-221: validate and return the accumulator
Validate(r) ==
    /\ pc[r] = "validate"
    /\ IF MustFail(allow_partial[r], metadata[r])
       THEN /\ outcome' = [outcome EXCEPT ![r] =
                   [kind |-> "incomplete", rec |-> NoRecord,
                    missing |-> Missing(metadata[r])]]
            /\ pc' = [pc EXCEPT ![r] = "failed"]
       ELSE /\ outcome' = [outcome EXCEPT ![r] =
                   [kind |-> "returned", rec |-> metadata[r], missing |-> << >>]]
            /\ pc' = [pc EXCEPT ![r] = "returned"]
    /\ UNCHANGED <<serpapi_key, purl, allow_partial, release, call, metadata, idx, net, contrib, fetched>>

discoverVars ==
    <<serpapi_key, pc, purl, allow_partial, metadata, idx, outcome, net, contrib,
      fetched, release>>

\* _merge_metadata(a, b), (b, a), (a, a) and (b, c)
MergePair ==
    /\ call.at = "args"
    /\ \E ab \in MergeMetadata(call.a, call.b), ba \in MergeMetadata(call.b, call.a),
          aa \in MergeMetadata(call.a, call.a), bc \in MergeMetadata(call.b, call.c) :
          call' = [at |-> "pair", a |-> call.a, b |-> call.b, c |-> call.c,
                   ab |-> ab, ba |-> ba, aa |-> aa, bc |-> bc]
    /\ UNCHANGED discoverVars

\* _merge_metadata(_merge_metadata(a, b), c) and _merge_metadata(a, _merge_metadata(b, c))
MergeTriple ==
    /\ call.at = "pair"
    /\ \E left \in MergeMetadata(call.ab, call.c), right \in MergeMetadata(call.a, call.bc) :
          call' = [at |-> "triple", a |-> call.a, b |-> call.b, c |-> call.c,
                   ab |-> call.ab, ba |-> call.ba, aa |-> call.aa, bc |-> call.bc,
                   left |-> left, right |-> right]
    /\ UNCHANGED discoverVars

MergeInit ==
    /\ InitRequests({})
    /\ serpapi_key = None
    /\ call \in [at : {"args"}, a : MergeRecords, b : MergeRecords, c : MergeRecords]

MergeNext == MergePair \/ MergeTriple

MergeSpec == MergeInit /\ [][MergeNext]_vars

----------------------------------------------------------------------------
(* _parse_purl called on its own *)

MaxSegments == 3

S_pkg_nocolon == <<"p", "k", "g">>
S_ver_1 == <<"1">>
S_ver_nested == <<"1", "@", "2">>
S_qual == <<"t", "=", "j">>
S_qual_at == <<"r", "=", "a", "@", "b">>
S_subpath == <<"s", "r", "c">>

\* the segments an identifier is built from
SegmentPool == {EmptyStr, S_npm, S_express}

\* the pieces of an identifier: the scheme, the "/"-separated segments and the
\* optional "@version", "?qualifiers" and "#subpath" (None: the part is absent)
PurlShapes ==
    [scheme : {S_pkg, EmptyStr, S_pkg_nocolon},
     segs : SeqsUpTo(SegmentPool, MaxSegments),
     ver : {None, EmptyStr, S_ver_1, S_ver_nested},
     quals : {None, S_qual, S_qual_at},
     subpath : {None, S_subpath}]

Opt(mark, part) == IF part = None THEN EmptyStr ELSE mark \o part

\* the identifier text of a shape
PurlText(c) ==
    c.scheme \o Join(c.segs, S_slash) \o Opt(S_at, c.ver) \o Opt(S_qmark, c.quals)
        \o Opt(S_hash, c.subpath)

\* the text of the same identifier without version, qualifiers and subpath
PlainText(c) == c.scheme \o Join(c.segs, S_slash)

\* _parse_purl(text, PackageMetadata(text)) for the identifier and its plain form
ParseCall ==
    /\ call.at = "purl"
    /\ LET text == PurlText(call.shape)
           plain == PlainText(call.shape)
       IN  call' = [at |-> "parsed", shape |-> call.shape, text |-> text,
                    parsed |-> ParsePurl(text, NewMetadata(text)),
                    plain |-> ParsePurl(plain, NewMetadata(plain))]
    /\ UNCHANGED discoverVars

ParseInit ==
    /\ InitRequests({})
    /\ serpapi_key = None
    /\ call \in [at : {"purl"}, shape : PurlShapes]

ParseNext == ParseCall

ParseSpec == ParseInit /\ [][ParseNext]_vars

----------------------------------------------------------------------------
(* The link loop of _fetch_deps_dev run on its own *)

U_repo_plain == <<"h", "t", "t", "p", "s", ":", "/", "/", "g", "i", "t", "h", "u", "b", ".", "c", "o", "m", "/", "e", "x", "p", "r", "e", "s", "s", "j", "s", "/", "e", "x", "p", "r", "e", "s", "s">>
U_repo_www == <<"h", "t", "t", "p", "s", ":", "/", "/", "w", "w", "w", ".", "g", "i", "t", "h", "u", "b", ".", "c", "o", "m", "/", "e", "x", "p", "r", "e", "s", "s", "j", "s", "/", "e", "x", "p", "r", "e", "s", "s">>
U_home_ref == <<"h", "t", "t", "p", "s", ":", "/", "/", "e", "x", "p", "r", "e", "s", "s", "j", "s", ".", "c", "o", "m", "/", "?", "f", "r", "o", "m", "=", "g", "i", "t", "h", "u", "b", ".", "c", "o", "m">>
U_home_docs == <<"h", "t", "t", "p", "s", ":", "/", "/", "e", "x", "p", "r", "e", "s", "s", "j", "s", ".", "c", "o", "m", "/", "d", "o", "c", "s">>

\* the links of a version answer: forge and other urls under both labels
WideLinkPool ==
    {[label |-> S_label_repo, url |-> U_repo_git],
     [label |-> S_label_repo, url |-> U_repo_gitlab],
     [label |-> S_label_home, url |-> U_home],
     [label |-> S_label_home, url |-> U_home_docs],
     [label |-> S_label_home, url |-> U_repo_plain],
     [label |-> S_label_home, url |-> U_home_ref]}

\* the urls the cleaning of lines 342-346 is applied to
UrlPool ==
    {U_repo_git, U_repo_issues, U_repo_gitlab, U_repo_plain, U_repo_www,
     U_serp_repo, U_serp_other, U_home, U_home_ref}

\* the loop of lines 335-350 on a fresh result
ClassifyCall ==
    /\ call.at = "links"
    /\ call' = [at |-> "classified", links |-> call.links,
                result |-> ClassifyLinks(NewMetadata(P_npm), call.links, 1)]
    /\ UNCHANGED discoverVars

\* lines 342-346 on one url
CleanCall ==
    /\ call.at = "url"
    /\ call' = [at |-> "cleaned", url |-> call.url, cleaned |-> CleanRepoUrl(call.url)]
    /\ UNCHANGED discoverVars

LinkInit ==
    /\ InitRequests({})
    /\ serpapi_key = None
    /\ \/ call \in [at : {"links"}, links : SeqsUpTo(WideLinkPool, MaxLinks)]
       \/ call \in [at : {"url"}, url : UrlPool]

LinkNext == ClassifyCall \/ CleanCall

LinkSpec == LinkInit /\ [][LinkNext]_vars

Next ==
    \E r \in Reqs :
        \/ Parse(r)
        \/ SpecialGitHub(r)
        \/ SpecialGo(r)
        \/ TryDepsDev(r)
        \/ TryClearlyDefined(r)
        \/ TryPurl2src(r)
        \/ TryUpmex(r)
        \/ TrySerpapi(r)
        \/ Validate(r)

Spec == Init /\ [][Next]_vars

\* every awaited call returns, raises or times out, and the request goes on
FairInit ==
    /\ Init
    /\ purl[1] \in {P_npm, P_gem, P_hex, P_noscheme}

FairSpec == FairInit /\ [][Next]_vars /\ WF_vars(Next)

\* two discover calls on one service, interleaved at their suspension points
InitConc ==
    /\ InitRequests(Reqs)
    /\ purl[1] = P_gem
    /\ purl[2] \in {P_github, P_hex}
    /\ ~allow_partial[1]
    /\ allow_partial[2]
    /\ call = NoCall

SpecConc == InitConc /\ [][Next]_vars

----------------------------------------------------------------------------
(* Properties of discover() *)

Last(q) == q[Len(q)]

\* the fetch was a complete record
CompleteFetch(f) ==
    f.kind = "rec" /\ Truthy(f.rec.ecosystem) /\ Truthy(f.rec.name) /\ Truthy(f.rec.repo_url)

CompleteRecord(m) == Truthy(m.ecosystem) /\ Truthy(m.name) /\ Truthy(m.repo_url)

\* every source of the list was awaited and none returned a complete record
Exhausted(r) ==
    /\ pc[r] \in {"validate", "returned", "failed"}
    /\ Len(fetched[r]) = Len(Sources(serpapi_key))
    /\ \A i \in 1..Len(fetched[r]) : ~CompleteFetch(fetched[r][i])

\* C1: a provider at any position of the chain that returns a complete record
\* ends the request at once: discover has returned and that provider is the
\* last one that was invoked and the last one that made a network call.
C1_ShortCircuit ==
    \A r \in Reqs : \A i \in 1..Len(fetched[r]) :
        CompleteFetch(fetched[r][i]) =>
            /\ i = Len(fetched[r])
            /\ pc[r] = "returned"
            /\ outcome[r].kind = "returned"

C1_Witness ==
    \E r \in Reqs :
        /\ Len(fetched[r]) = 1
        /\ fetched[r][1].source = S_deps_dev
        /\ CompleteFetch(fetched[r][1])
        /\ pc[r] = "returned"

\* C2: no provider is invoked while the accumulator is already complete
\* (non-empty ecosystem, name and repo_url), wherever the repo_url came from.
C2_NoFetchOnceComplete ==
    \A r \in Reqs : \A i \in 1..Len(fetched[r]) :
        ~CompleteRecord(fetched[r][i].before)

ScalarFields ==
    {"ecosystem", "name", "version", "repo_url", "license", "description",
     "homepage", "latest_version"}

\* the contributors of request r that supplied a non-empty value of field f
Suppliers(r, f) == {i \in 1..Len(contrib[r]) : Truthy(contrib[r][i].rec[f])}

\* C3: in the returned record, a field for which two contributors supplied
\* different non-empty values holds the value of the earliest of them.
C3_FirstValueWins ==
    \A r \in Reqs : outcome[r].kind = "returned" =>
        \A f \in ScalarFields :
            LET S == Suppliers(r, f)
            IN  (\E i, j \in S : contrib[r][i].rec[f] # contrib[r][j].rec[f]) =>
                    outcome[r].rec[f] =
                        contrib[r][CHOOSE i \in S : \A j \in S : i <= j].rec[f]

ProviderNames == {S_deps_dev, S_clearlydefined, S_purl2src, S_upmex, S_serpapi}

\* C4: every complete record discover returns has a source that names a
\* provider of the chain.
C4_CompleteHasSource ==
    \A r \in Reqs :
        (outcome[r].kind = "returned" /\ CompleteRecord(outcome[r].rec)) =>
            outcome[r].rec.source \in ProviderNames

\* C5: an incomplete record is returned only when allow_partial is true, and
\* it has no source.
C5_NoPartialPromoted ==
    \A r \in Reqs :
        (outcome[r].kind = "returned" /\ ~CompleteRecord(outcome[r].rec)) =>
            /\ allow_partial[r]
            /\ outcome[r].rec.source = None

C5_Witness ==
    \E r \in Reqs :
        /\ outcome[r].kind = "returned"
        /\ ~CompleteRecord(outcome[r].rec)
        /\ Truthy(outcome[r].rec.license)

\* C6: when the first provider raised, returned nothing or returned an
\* incomplete record and the second provider returns a complete record,
\* discover returns that record with source 'clearlydefined'.
C6_Fallback ==
    \A r \in Reqs :
        (/\ Len(fetched[r]) >= 2
         /\ ~CompleteFetch(fetched[r][1])
         /\ CompleteFetch(fetched[r][2])) =>
            /\ outcome[r].kind = "returned"
            /\ outcome[r].rec.source = S_clearlydefined
            /\ outcome[r].rec.repo_url = fetched[r][2].rec.repo_url

C6_Witness ==
    \E r \in Reqs :
        /\ Len(fetched[r]) = 2
        /\ fetched[r][1].kind = "raise"
        /\ fetched[r][2].source = S_clearlydefined
        /\ CompleteFetch(fetched[r][2])
        /\ outcome[r].kind = "returned"

RequiredFields == {"ecosystem", "name", "repo_url"}

FieldLabel(f) ==
    IF f = "ecosystem" THEN S_ecosystem ELSE IF f = "name" THEN S_name ELSE S_repo_url

\* C7: after the whole chain was tried, with an incomplete accumulator and
\* allow_partial false, discover fails, and the failure names exactly the
\* required fields that are empty in the accumulator, each once.
C7_IncompleteNamesMissing ==
    \A r \in Reqs :
        /\ (Exhausted(r) /\ pc[r] # "validate" /\ ~allow_partial[r]
               /\ ~CompleteRecord(metadata[r])) => outcome[r].kind = "incomplete"
        /\ outcome[r].kind = "incomplete" =>
              /\ Range(outcome[r].missing) =
                    {FieldLabel(f) : f \in {g \in RequiredFields : ~Truthy(metadata[r][g])}}
              /\ Len(outcome[r].missing) = Cardinality(Range(outcome[r].missing))

C7_Witness ==
    \E r \in Reqs :
        /\ outcome[r].kind = "incomplete"
        /\ Truthy(metadata[r].ecosystem)
        /\ ~Truthy(metadata[r].name)
        /\ Len(outcome[r].missing) = 2

\* the identifier fails the grammar: no "pkg:" prefix, or no "/" between the
\* prefix and the first "@"
GrammarFails(p) ==
    \/ ~StartsWith(p, S_pkg)
    \/ ~Contains(SplitOnce(Drop(p, 4), S_at)[1], S_slash)

\* C8: with allow_partial true a request whose identifier parses never
\* fails, whatever the providers do, and after the whole chain was tried it
\* returns the accumulator as it is.
C8_PartialNeverFails ==
    \A r \in Reqs : (allow_partial[r] /\ ~GrammarFails(purl[r])) =>
        /\ pc[r] # "failed"
        /\ outcome[r].kind \in {"pending", "returned"}
        /\ (Exhausted(r) /\ pc[r] # "validate") =>
              (outcome[r].kind = "returned" /\ outcome[r].rec = metadata[r])

C8_Witness ==
    \E r \in Reqs :
        /\ allow_partial[r]
        /\ Exhausted(r)
        /\ outcome[r].kind = "returned"
        /\ ~CompleteRecord(outcome[r].rec)
        /\ \E i \in 1..Len(fetched[r]) : fetched[r][i].kind = "raise"

\* C9: a request whose identifier fails the grammar fails with the
\* invalid-identifier error in its first step, whatever allow_partial is:
\* no resolver and no provider runs and no network call is made.
C9_MalformedFailsFirst ==
    \A r \in Reqs : (GrammarFails(purl[r]) /\ pc[r] \notin {"idle", "parsing"}) =>
        /\ pc[r] = "failed"
        /\ outcome[r].kind = "invalid_purl"
        /\ net[r] = << >>
        /\ fetched[r] = << >>
        /\ contrib[r] = << >>

C9_Witness ==
    \E r \in Reqs :
        /\ GrammarFails(purl[r])
        /\ allow_partial[r]
        /\ pc[r] = "failed"

\* C10: a step in which a provider raised or returned nothing leaves the
\* accumulator and the outcome as they were and moves on to the next source
\* of the list, or to validation after the last one.
C10_NoContribution ==
    [][\A r \in Reqs :
         (/\ Len(fetched'[r]) = Len(fetched[r]) + 1
          /\ Last(fetched'[r]).kind \in {"raise", "none"}) =>
            /\ metadata'[r] = metadata[r]
            /\ outcome'[r] = outcome[r]
            /\ IF idx[r] < Len(Sources(serpapi_key))
               THEN pc'[r] = "try" /\ idx'[r] = idx[r] + 1
               ELSE pc'[r] = "validate"]_vars

C10_Witness ==
    \E r \in Reqs :
        /\ Len(fetched[r]) >= 2
        /\ fetched[r][1].kind = "raise"
        /\ fetched[r][2].kind = "none"
        /\ fetched[r][2].before = fetched[r][1].before

\* C11: no fetcher lets an exception leave its call: whatever the network
\* does, a fetcher returns a record or nothing.
C11_FetchersNeverRaise ==
    \A r \in Reqs : \A i \in 1..Len(fetched[r]) : fetched[r][i].kind # "raise"

ChainOrder == <<S_deps_dev, S_clearlydefined, S_purl2src, S_upmex, S_serpapi>>

\* the position of a network call in the order of the chain
CallRank(c) ==
    IF c = "api.github.com" THEN 0
    ELSE IF c = "deps.dev/package" THEN 1
    ELSE IF c = "deps.dev/version" THEN 2
    ELSE IF c = "clearlydefined" THEN 3
    ELSE 4

\* C12: within a request the providers are invoked in the order deps.dev,
\* clearlydefined, purl2src, upmex, serpapi, each at most once and each after
\* the one before it has finished (the network calls are made in that order,
\* none repeated); serpapi is invoked only with a credential and only after
\* the four free providers were invoked without returning a complete record.
C12_FixedOrder ==
    \A r \in Reqs :
        /\ Len(fetched[r]) <= Len(ChainOrder)
        /\ \A i \in 1..Len(fetched[r]) : fetched[r][i].source = ChainOrder[i]
        /\ \A i, j \in 1..Len(net[r]) : i < j => CallRank(net[r][i]) < CallRank(net[r][j])
        /\ \A i \in 1..Len(fetched[r]) :
              fetched[r][i].source = S_serpapi =>
                 /\ Truthy(serpapi_key)
                 /\ i = Len(ChainOrder)
                 /\ \A j \in 1..(i - 1) : ~CompleteFetch(fetched[r][j])

C12_Witness ==
    \E r \in Reqs :
        /\ Len(fetched[r]) = Len(ChainOrder)
        /\ Last(fetched[r]).source = S_serpapi
        /\ Last(net[r]) = "serpapi"
        /\ \E i \in 1..Len(net[r]) : net[r][i] = "deps.dev/version"

\* the identifier has the shape pkg:github/<owner>/<repo>
IsGitHubPair(m) ==
    m.ecosystem = S_github /\ m.name # None /\ Contains(m.name, S_slash)

\* C13: every request for pkg:github/<owner>/<repo> returns a record whose
\* repo_url is https://github.com/<owner>/<repo>, whatever the release API
\* and the providers answer, with or without a search credential.
C13_GitHubRepoUrl ==
    \A r \in Reqs :
        (IsGitHubPair(metadata[r]) /\ pc[r] \in {"returned", "failed"}) =>
            /\ outcome[r].kind = "returned"
            /\ outcome[r].rec.repo_url = S_https_github \o metadata[r].name

\* the accumulator with which the provider chain was entered
BeforeChain(r) == IF fetched[r] = << >> THEN metadata[r] ELSE fetched[r][1].before

InChainOrAfter(r) == pc[r] \in {"try", "validate", "returned", "failed"} /\ idx[r] >= 1

\* C14: when the release lookup raised, timed out, or got a non-success or
\* undecodable answer, latest_version stays unset, repo_url stays as
\* synthesized, and the request goes on to the provider chain: it does not
\* fail before a provider was invoked.
C14_ReleaseBestEffort ==
    \A r \in Reqs :
        release[r].kind \in {"exc", "non200", "badjson"} =>
            /\ pc[r] \in {"special_go", "try", "validate", "returned", "failed"}
            /\ pc[r] = "special_go" =>
                  /\ metadata[r].latest_version = None
                  /\ metadata[r].repo_url = S_https_github \o metadata[r].name
                  /\ outcome[r].kind = "pending"
            /\ InChainOrAfter(r) =>
                  /\ BeforeChain(r).latest_version = None
                  /\ BeforeChain(r).repo_url = S_https_github \o BeforeChain(r).name
            /\ pc[r] \in {"returned", "failed"} => Len(fetched[r]) >= 1

C14_Witness ==
    \E r \in Reqs :
        /\ release[r].kind = "exc"
        /\ pc[r] = "returned"
        /\ Len(fetched[r]) >= 4
        /\ outcome[r].rec.latest_version = None

\* the first three "/"-separated segments of a module path, joined again
FirstThreeSegments(name) == Join(SubSeq(Split(name, S_slash), 1, 3), S_slash)

\* C15: for ecosystem golang or go and a name that starts with github.com/
\* or gitlab.com/ and has at least three segments, the accumulator with
\* which the chain is entered has repo_url = https:// + host/owner/repo; with
\* fewer segments or another host repo_url is unset; and the resolver makes
\* no network call.
C15_GoResolver ==
    \A r \in Reqs :
        (InChainOrAfter(r) /\ BeforeChain(r).ecosystem \in {S_golang, S_go}) =>
            LET name == BeforeChain(r).name
            IN  /\ IF /\ (StartsWith(name, S_github_com_slash)
                            \/ StartsWith(name, S_gitlab_com_slash))
                      /\ Len(Split(name, S_slash)) >= 3
                   THEN BeforeChain(r).repo_url = S_https \o FirstThreeSegments(name)
                   ELSE BeforeChain(r).repo_url = None
                /\ fetched[r] = << >> => net[r] = << >>

C15_Witness ==
    \E r \in Reqs :
        /\ InChainOrAfter(r)
        /\ BeforeChain(r).ecosystem = S_go
        /\ Len(Split(BeforeChain(r).name, S_slash)) > 3
        /\ BeforeChain(r).repo_url = S_https \o S_gitlab_com_slash \o <<"a", "/", "b">>

----------------------------------------------------------------------------
(* Concurrent requests *)

\* everything request r holds
LocalState(r) ==
    <<pc[r], purl[r], allow_partial[r], metadata[r], idx[r], outcome[r], net[r],
      contrib[r], fetched[r], release[r]>>

\* out is what the fetch recorded in e returned
Matches(out, e) == out.kind = e.kind /\ out.rec = e.rec

\* the fetch recorded in e is one the fetcher makes for the accumulator e.before
FetcherCanReturn(e) ==
    IF e.source = S_deps_dev
    THEN \E x \in DepsDevResponses : Matches(FetchDepsDev(e.before, x), e)
    ELSE IF e.source = S_clearlydefined
    THEN \E x \in ClearlyDefinedResponses : Matches(FetchClearlyDefined(e.before, x), e)
    ELSE IF e.source = S_purl2src THEN Matches(FetchPurl2src(e.before), e)
    ELSE IF e.source = S_upmex THEN Matches(FetchUpmex(e.before), e)
    ELSE \E x \in SerpapiResponses : Matches(FetchSerpapi(e.before, serpapi_key, x), e)

\* the accumulators the loop can hold after the iteration recorded in e
AccumulatorAfter(e) ==
    IF e.kind = "rec" /\ ~ShortCircuits(e)
    THEN MergeMetadata(e.before, e.rec) ELSE {e.before}

\* the accumulator of request r when it runs alone: after parsing, after the
\* GitHub resolver (given the release answer r received), after the Go resolver
SoloParsed(r) == ParsePurl(purl[r], NewMetadata(purl[r]))

SoloAfterGitHub(r) ==
    IF GitHubApplies(SoloParsed(r).md)
    THEN GitHubResolve(SoloParsed(r).md, release[r]) ELSE SoloParsed(r).md

SoloAfterResolvers(r) == GoResolve(SoloAfterGitHub(r))

\* the outcome of request r when it runs alone and receives what r received
SoloOutcome(r) ==
    IF ~SoloParsed(r).ok
    THEN [kind |-> "invalid_purl", rec |-> NoRecord, missing |-> << >>]
    ELSE IF fetched[r] # << >> /\ ShortCircuits(Last(fetched[r]))
    THEN [kind |-> "returned",
          rec |-> StampSource(Last(fetched[r]).rec, Last(fetched[r]).source),
          missing |-> << >>]
    ELSE IF MustFail(allow_partial[r], metadata[r])
    THEN [kind |-> "incomplete", rec |-> NoRecord, missing |-> Missing(metadata[r])]
    ELSE [kind |-> "returned", rec |-> metadata[r], missing |-> << >>]

\* the history of request r is one a run of r alone produces: every fetch was
\* made in chain order with r's own accumulator, the accumulator changed only
\* by r's own merges, and the outcome is the one of the run alone
SoloHistory(r) ==
    /\ pc[r] = "parsing" => metadata[r] = NewMetadata(purl[r])
    /\ pc[r] = "special_github" => metadata[r] = SoloParsed(r).md
    /\ pc[r] = "special_go" => metadata[r] = SoloAfterGitHub(r)
    /\ pc[r] \in {"idle", "parsing", "special_github", "special_go"} => fetched[r] = << >>
    /\ \A i \in 1..Len(fetched[r]) :
          LET e == fetched[r][i]
          IN  /\ e.source = Sources(serpapi_key)[i]
              /\ e.before \in IF i = 1 THEN {SoloAfterResolvers(r)}
                              ELSE AccumulatorAfter(fetched[r][i - 1])
              /\ FetcherCanReturn(e)
              /\ i < Len(fetched[r]) => ~ShortCircuits(e)
    /\ pc[r] \in {"try", "validate", "returned"} =>
          metadata[r] \in IF fetched[r] = << >> THEN {SoloAfterResolvers(r)}
                          ELSE AccumulatorAfter(Last(fetched[r]))
    /\ IF pc[r] \in {"returned", "failed"}
       THEN outcome[r] = SoloOutcome(r)
       ELSE outcome[r] = Pending

\* a step changes what one request holds, or nothing
OneRequestSteps ==
    \A r \in Reqs, q \in Reqs :
        r # q /\ LocalState(r)' # LocalState(r) => LocalState(q)' = LocalState(q)

\* C16: when two discover requests on one service are interleaved at their
\* network-call boundaries, no step of one request changes what the other
\* holds, every fetch of a request is made with that request's own accumulator,
\* and each request's outcome is the one it has when run alone against the
\* same provider responses.
C16_NoInterference ==
    /\ [](\A r \in Reqs : SoloHistory(r))
    /\ [][OneRequestSteps]_vars

\* both requests are inside the loop, request 1 having merged a provider's
\* record and request 2 holding what the GitHub resolver gave it
C16_Witness ==
    /\ pc[1] = "try" /\ pc[2] = "try"
    /\ Len(fetched[1]) >= 2 /\ Len(fetched[2]) >= 1
    /\ \E i \in 1..Len(fetched[1]) : fetched[1][i].kind = "rec"
    /\ metadata[1] # SoloAfterResolvers(1)
    /\ release[2] # NoAnswer
    /\ Truthy(metadata[2].repo_url)
    /\ metadata[1].repo_url # metadata[2].repo_url

----------------------------------------------------------------------------
(* Properties of _merge_metadata *)

MergedFields == ScalarFields \cup {"source"}

NonEmpty(x) == x # None /\ x # EmptyStr

\* C17: for every scalar field and the source tag, _merge_metadata(base, new)
\* holds base's value if that is non-empty and new's value otherwise; a
\* non-empty base value is kept also when new holds another value.
C17_FillMissing ==
    call.at \in {"pair", "triple"} =>
        \A f \in MergedFields :
            /\ call.ab[f] = IF NonEmpty(call.a[f]) THEN call.a[f] ELSE call.b[f]
            /\ call.ba[f] = IF NonEmpty(call.b[f]) THEN call.b[f] ELSE call.a[f]

C17_Witness ==
    /\ call.at = "pair"
    /\ NonEmpty(call.a.license) /\ NonEmpty(call.b.license)
    /\ call.a.license # call.b.license
    /\ call.a.repo_url = EmptyStr /\ NonEmpty(call.b.repo_url)
    /\ call.ab.repo_url = call.b.repo_url

\* C18: _merge_metadata(X, X) equals X on every field, the maintainers
\* compared as a set.
C18_Idempotent ==
    call.at \in {"pair", "triple"} =>
        /\ \A f \in MergedFields \cup {"purl"} : call.aa[f] = call.a[f]
        /\ Range(call.aa.maintainers) = Range(call.a.maintainers)

C18_Witness ==
    /\ call.at = "pair"
    /\ call.a.ecosystem = EmptyStr
    /\ NonEmpty(call.a.name)
    /\ Len(call.a.maintainers) = 2

\* C19: the maintainers of _merge_metadata(base, new) are exactly the entries
\* of base.maintainers and new.maintainers, each once, whichever of the two
\* lists comes first.
C19_MaintainersUnion ==
    call.at \in {"pair", "triple"} =>
        /\ Range(call.ab.maintainers)
              = Range(call.a.maintainers) \cup Range(call.b.maintainers)
        /\ Len(call.ab.maintainers) = Cardinality(Range(call.ab.maintainers))
        /\ Range(call.ba.maintainers) = Range(call.ab.maintainers)
        /\ Len(call.ba.maintainers) = Len(call.ab.maintainers)

C19_Witness ==
    /\ call.at = "pair"
    /\ call.a.maintainers = <<M_alice, M_alice>>
    /\ call.b.maintainers = <<M_bob, M_alice>>
    /\ call.ab.maintainers = <<M_alice, M_bob>>

\* C20: _merge_metadata(_merge_metadata(A, B), C) and
\* _merge_metadata(A, _merge_metadata(B, C)) agree on every scalar field, on
\* the source tag and on the maintainer set.
C20_Associative ==
    call.at = "triple" =>
        /\ \A f \in MergedFields : call.left[f] = call.right[f]
        /\ Range(call.left.maintainers) = Range(call.right.maintainers)

C20_Witness ==
    /\ call.at = "triple"
    /\ call.a.license = EmptyStr /\ NonEmpty(call.b.license) /\ NonEmpty(call.c.license)
    /\ call.b.license # call.c.license
    /\ call.left.license = call.b.license
    /\ call.a.maintainers # call.b.maintainers
    /\ call.b.maintainers # call.c.maintainers

----------------------------------------------------------------------------
(* Properties of _parse_purl *)

\* the segments from the second on, written with "/" between them
RECURSIVE Slashed(_)
Slashed(segs) ==
    IF Len(segs) = 1 THEN segs[1] ELSE segs[1] \o S_slash \o Slashed(Tail(segs))

Parsed == call.at = "parsed"

HasNoise(c) == c.quals # None \/ c.subpath # None

\* C21: an identifier "pkg:" + k >= 2 segments joined by "/" with no "@"
\* parses with ecosystem = the first segment, name = the remaining segments
\* joined by "/" and version None.
C21_SegmentRule ==
    (/\ Parsed
     /\ call.shape.scheme = S_pkg
     /\ Len(call.shape.segs) >= 2
     /\ call.shape.ver = None /\ ~HasNoise(call.shape)) =>
        /\ call.parsed.ok
        /\ call.parsed.md.ecosystem = call.shape.segs[1]
        /\ call.parsed.md.name = Slashed(Tail(call.shape.segs))
        /\ call.parsed.md.version = None

C21_Witness ==
    /\ Parsed
    /\ call.shape.scheme = S_pkg
    /\ call.shape.segs = <<S_npm, S_express, S_npm>>
    /\ call.shape.ver = None /\ ~HasNoise(call.shape)
    /\ call.parsed.ok
    /\ Len(call.parsed.md.name) = Len(S_express) + 1 + Len(S_npm)

\* C22: for an identifier with "@V" followed by "?..." and/or "#..." the parsed
\* version is V exactly.
C22_VersionExtraction ==
    (/\ Parsed
     /\ call.shape.scheme = S_pkg
     /\ call.shape.ver # None
     /\ HasNoise(call.shape)) =>
        call.parsed.md.version = call.shape.ver

C22_Witness ==
    /\ Parsed
    /\ call.shape.scheme = S_pkg
    /\ call.shape.ver = S_ver_1
    /\ call.shape.quals = None /\ call.shape.subpath = S_subpath
    /\ call.parsed.ok
    /\ call.parsed.md.version = S_ver_1

\* C23: _parse_purl fails for every string that does not start with "pkg:"
\* and for every string without a name segment after the ecosystem; every
\* successful parse yields a non-empty ecosystem and a non-empty name.
C23_ParseFailures ==
    Parsed =>
        /\ ~StartsWith(call.text, S_pkg) => ~call.parsed.ok
        /\ (call.shape.scheme = S_pkg /\ Len(call.shape.segs) < 2) => ~call.parsed.ok
        /\ call.parsed.ok =>
              /\ Truthy(call.parsed.md.ecosystem)
              /\ Truthy(call.parsed.md.name)

\* C24: "?qualifiers" and "#subpath" are ignored with or without a version:
\* the identifier parses to the ecosystem and name of its plain form, and no
\* "?" or "#" part is in the parsed name.
C24_NoiseIgnored ==
    (/\ Parsed
     /\ call.shape.scheme = S_pkg
     /\ Len(call.shape.segs) >= 2
     /\ call.shape.ver \in {None, S_ver_1}
     /\ call.shape.quals \in {None, S_qual}
     /\ HasNoise(call.shape)) =>
        /\ call.parsed.ok
        /\ call.parsed.md.ecosystem = call.plain.md.ecosystem
        /\ call.parsed.md.name = call.plain.md.name
        /\ ~Contains(call.parsed.md.name, S_qmark)
        /\ ~Contains(call.parsed.md.name, S_hash)

----------------------------------------------------------------------------
(* Properties of the fetchers *)

DepsDevEcosystems == {S_npm, S_pypi, S_maven, S_golang, S_cargo, S_go, S_nuget}

ClearlyDefinedEcosystems ==
    {S_npm, S_pypi, S_maven, S_golang, S_go, S_cargo, S_nuget, S_gem}

NetTags(source_name) ==
    IF source_name = S_deps_dev THEN {"deps.dev/package", "deps.dev/version"}
    ELSE {"clearlydefined"}

Unsupported(e) ==
    \/ e.source = S_deps_dev /\ e.before.ecosystem \notin DepsDevEcosystems
    \/ e.source = S_clearlydefined /\ e.before.ecosystem \notin ClearlyDefinedEcosystems

\* C25: when the accumulator's ecosystem is not in the fetcher's own table,
\* _fetch_deps_dev and _fetch_clearlydefined return nothing, raise nothing and
\* make no network call.
C25_UnsupportedEcosystem ==
    \A r \in Reqs : \A i \in 1..Len(fetched[r]) :
        Unsupported(fetched[r][i]) =>
            /\ fetched[r][i].kind = "none"
            /\ \A k \in 1..Len(net[r]) : net[r][k] \notin NetTags(fetched[r][i].source)

C25_Witness ==
    /\ purl[1] = P_gem
    /\ Len(fetched[1]) >= 2
    /\ Unsupported(fetched[1][1]) /\ fetched[1][1].kind = "none"
    /\ ~Unsupported(fetched[1][2]) /\ fetched[1][2].kind = "rec"
    /\ net[1] = <<"clearlydefined">>

U_clean_github == <<"h", "t", "t", "p", "s", ":", "/", "/", "g", "i", "t", "h", "u", "b", ".", "c", "o", "m", "/", "e", "x", "p", "r", "e", "s", "s", "j", "s", "/", "e", "x", "p", "r", "e", "s", "s">>
U_clean_issues == <<"h", "t", "t", "p", "s", ":", "/", "/", "G", "i", "t", "H", "u", "b", ".", "c", "o", "m", "/", "e", "x", "p", "r", "e", "s", "s", "j", "s", "/", "e", "x", "p", "r", "e", "s", "s">>

\* the cleaned form of the forge links a version answer lists
CleanedLink(url_val) ==
    IF url_val = U_repo_git THEN U_clean_github
    ELSE IF url_val = U_repo_issues THEN U_clean_issues
    ELSE url_val

ForgeLinks == {U_repo_git, U_repo_issues, U_repo_gitlab}

\* the url of the first forge link of links, None if there is none
FirstForgeUrl(links) ==
    LET at == {i \in 1..Len(links) : links[i].url \in ForgeLinks}
    IN  IF at = {} THEN None
        ELSE links[CHOOSE i \in at : \A j \in at : i <= j].url

\* deps.dev lists versions, and its version answer has a forge link and licenses
PrimaryScenario(resp) ==
    /\ resp.pkg = "ok" /\ resp.ver = "ok"
    /\ resp.versions # << >>
    /\ resp.licenses # << >>
    /\ FirstForgeUrl(resp.links) # None

\* C26: for an identifier with an explicit version in an ecosystem deps.dev
\* supports, when deps.dev lists versions and its version answer has a forge
\* link and a license list, discover returns the deps.dev record with
\* repo_url = the cleaned link, license = the first license, latest_version =
\* the last listed version, version = the requested one and source
\* "deps.dev", and no later provider is invoked.
C26_PrimarySource ==
    \A r \in Reqs :
        (/\ fetched[r] # << >>
         /\ fetched[r][1].source = S_deps_dev
         /\ fetched[r][1].kind = "rec"
         /\ Truthy(SoloParsed(r).md.version)
         /\ SoloParsed(r).md.ecosystem \in DepsDevEcosystems) =>
            \A resp \in DepsDevResponses :
                (/\ PrimaryScenario(resp)
                 /\ Matches(FetchDepsDev(fetched[r][1].before, resp), fetched[r][1])) =>
                    /\ pc[r] = "returned"
                    /\ Len(fetched[r]) = 1
                    /\ outcome[r].kind = "returned"
                    /\ outcome[r].rec.repo_url = CleanedLink(FirstForgeUrl(resp.links))
                    /\ outcome[r].rec.license = resp.licenses[1]
                    /\ outcome[r].rec.latest_version = resp.versions[Len(resp.versions)]
                    /\ outcome[r].rec.version = SoloParsed(r).md.version
                    /\ outcome[r].rec.source = S_deps_dev

C26_Witness ==
    /\ purl[1] = P_npm_ver
    /\ pc[1] = "returned"
    /\ Len(fetched[1]) = 1
    /\ outcome[1].rec.repo_url = U_clean_github
    /\ outcome[1].rec.license = S_lic_MIT
    /\ outcome[1].rec.latest_version = S_ver_new
    /\ outcome[1].rec.version = S_ver_old
    /\ outcome[1].rec.source = S_deps_dev

----------------------------------------------------------------------------
(* Properties of the link loop *)

S_scheme_sep == <<":", "/", "/">>

\* the host of a url: what follows "://" up to the next "/", "?" or "#"
UrlHost(url_val) ==
    LET rest == IF Contains(url_val, S_scheme_sep)
                THEN SplitOnce(url_val, S_scheme_sep)[2] ELSE url_val
    IN  Split(Split(Split(rest, S_slash)[1], S_qmark)[1], S_hash)[1]

HasForgeHost(url_val) ==
    \E h \in {S_github_com, S_gitlab_com, S_bitbucket_org} :
        Contains(Lower(UrlHost(url_val)), h)

FirstAt(links, Test(_)) ==
    LET at == {i \in 1..Len(links) : Test(links[i])}
    IN  IF at = {} THEN 0 ELSE CHOOSE i \in at : \A j \in at : i <= j

IsForgeLink(link) == HasForgeHost(link.url)

IsHomepageLink(link) == Contains(Lower(link.label), S_homepage)

\* C27: over the ordered links, repo_url is the cleaned url of the first link
\* whose url host contains github.com, gitlab.com or bitbucket.org, and
\* homepage is the url of the first link labelled as a homepage, set whenever
\* there is such a link.
C27_LinkClassification ==
    call.at = "classified" =>
        LET f == FirstAt(call.links, IsForgeLink)
            h == FirstAt(call.links, IsHomepageLink)
        IN  /\ call.result.repo_url =
                  IF f = 0 THEN None ELSE CleanRepoUrl(call.links[f].url)
            /\ call.result.homepage = IF h = 0 THEN None ELSE call.links[h].url

S_suffix_git == <<".", "g", "i", "t">>

EndsWith(s, p) == Len(s) >= Len(p) /\ SubSeq(s, Len(s) - Len(p) + 1, Len(s)) = p

StripPrefix(s, p) == IF StartsWith(s, p) THEN Drop(s, Len(p)) ELSE s

StripSuffix(s, p) == IF EndsWith(s, p) THEN SubSeq(s, 1, Len(s) - Len(p)) ELSE s

\* where the first "/issues", "/pulls", "/wiki", "/tree" or "/blob" starts, 0 if none
FirstSegmentAt(s) ==
    LET at == {Find(s, seg) : seg \in {S_issues, S_pulls, S_wiki, S_tree, S_blob}} \ {0}
    IN  IF at = {} THEN 0 ELSE CHOOSE i \in at : \A j \in at : i <= j

CutAtSegment(s) ==
    IF FirstSegmentAt(s) = 0 THEN s ELSE SubSeq(s, 1, FirstSegmentAt(s) - 1)

\* C28: cleaning removes only a leading "git+", a trailing ".git" and
\* everything from the first "/issues", "/pulls", "/wiki", "/tree" or "/blob"
\* on; a url with none of these is returned unchanged.
C28_CleaningRemovesOnly ==
    call.at = "cleaned" =>
        call.cleaned = CutAtSegment(StripSuffix(StripPrefix(call.url, S_git_plus), S_suffix_git))

----------------------------------------------------------------------------
(* Properties of discover, continued *)

\* C29: every non-empty field the resolvers and the earlier partial
\* contributions put into the accumulator is in the returned record with the
\* same value, also when a later provider's complete record leaves it empty.
C29_AccumulatedSurvives ==
    \A r \in Reqs : outcome[r].kind = "returned" =>
        \A f \in ScalarFields :
            Truthy(metadata[r][f]) => outcome[r].rec[f] = metadata[r][f]

Terminal == {"returned", "failed"}

TerminalKinds == {"invalid_purl", "returned", "incomplete"}

\* the position of a request in PARSING, SPECIAL_CASE, TRY_PROVIDER(i), VALIDATE
Rank(at, i) ==
    IF at = "idle" THEN 0
    ELSE IF at = "parsing" THEN 1
    ELSE IF at = "special_github" THEN 2
    ELSE IF at = "special_go" THEN 3
    ELSE IF at = "try" THEN 3 + i
    ELSE IF at = "validate" THEN 9
    ELSE 10

\* a request never goes back, and a terminal request stays as it is
NeverBack ==
    \A r \in Reqs :
        /\ Rank(pc'[r], idx'[r]) >= Rank(pc[r], idx[r])
        /\ pc[r] \in Terminal => (pc'[r] = pc[r] /\ outcome'[r] = outcome[r])

\* at most four provider invocations without a key, at most five with one,
\* and a terminal request has one of the three outcomes
BoundedTries ==
    \A r \in Reqs :
        /\ Len(fetched[r]) <= IF serpapi_key = None THEN 4 ELSE 5
        /\ IF pc[r] \in Terminal THEN outcome[r].kind \in TerminalKinds
           ELSE outcome[r] = Pending

\* C30: every discover request ends in exactly one of the outcomes
\* invalid-identifier failure, returned record, incomplete-discovery failure,
\* after at most four provider invocations without a key and five with one,
\* and never goes back to an earlier state.
C30_Terminates ==
    /\ \A r \in Reqs : (pc[r] # "idle") ~> (pc[r] \in Terminal)
    /\ []BoundedTries
    /\ [][NeverBack]_vars

C30_Witness ==
    /\ serpapi_key = S_key
    /\ pc[1] = "failed"
    /\ outcome[1].kind = "incomplete"
    /\ Len(fetched[1]) = 5
    /\ \E i \in 1..5 : fetched[1][i].kind = "raise"

====
